---- MODULE Spec2Model ----
(***************************************************************************)
(* librusimg: a format-polymorphic image document.  A RusImg holds an      *)
(* Extension tag and one backend (JpegImage, PngImage, WebpImage,          *)
(* EmptyImage or the Bmp backend) behind BackendTrait.  The facade methods *)
(* of RusImg are the actions; the backend methods are operators that       *)
(* return the error, the new backend and the new file system.              *)
(*                                                                         *)
(* Option<T> is a sequence of length 0 (None) or 1 (Some).  The codecs,    *)
(* the resampler and the file system are collaborators outside the         *)
(* repository: encoded bytes are terms that record the encoder, its        *)
(* parameter and the encoded image.                                        *)
(***************************************************************************)
EXTENDS Integers, Sequences, FiniteSets, TLC

VARIABLES
    extension,  \* RusImg.extension: Option<Extension> (None: no document)
    data,       \* RusImg.data: Option<backend record>
    files,      \* the file system: path -> bytes of the file
    features,   \* cargo features the crate was built with
    last,       \* the last facade call: operation, argument, result
    edits,      \* history: successful resize/trim/grayscale/set_dynamic_image
                \* calls on the current backend since it was constructed
    steps       \* history: number of facade calls made so far

vars == <<extension, data, files, features, last, edits, steps>>

----------------------------------------------------------------------------
(* Bounds of the model *)

MaxDim == 3         \* side of the images of the lifecycle specification
MaxSteps == 3       \* facade calls per behaviour of the lifecycle specification
MaxBuildSteps == 2  \* facade calls per behaviour of the build specification
MaxSessionSteps == 3 \* facade calls per behaviour of the session specification
MaxRoundTripSteps == 3 \* facade calls per behaviour of the round trip specification
MaxRect == 4        \* largest rect coordinate of the geometry specification
MaxRatio == 110     \* largest resize ratio of the geometry specification

----------------------------------------------------------------------------
(* Option *)

None == <<>>
Some(x) == <<x>>
IsSome(o) == Len(o) = 1
IsNone(o) == Len(o) = 0
Unwrap(o) == o[1]

Min(a, b) == IF a <= b THEN a ELSE b
Max(a, b) == IF a >= b THEN a ELSE b

----------------------------------------------------------------------------
(* Extension (src/extension.rs) *)

Bmp == <<"Bmp">>
Jpg == <<"Jpg">>
Jpeg == <<"Jpeg">>
Png == <<"Png">>
Webp == <<"Webp">>
ExternalFormat(s) == <<"ExternalFormat", s>>

Extension == {Bmp, Jpg, Jpeg, Png, Webp} \cup {ExternalFormat(s) : s \in {"tiff", "empty"}}

AllFeatures == {"bmp", "jpeg", "png", "webp"}

----------------------------------------------------------------------------
(* f32 values that may be NaN: the quality of compress *)

NaN == [nan |-> TRUE, v |-> 0]
F32(n) == [nan |-> FALSE, v |-> n]
\* IEEE comparisons: every comparison with NaN is false
FLt(a, b) == ~a.nan /\ ~b.nan /\ a.v < b.v
FLe(a, b) == ~a.nan /\ ~b.nan /\ a.v <= b.v
FGt(a, b) == ~a.nan /\ ~b.nan /\ a.v > b.v

----------------------------------------------------------------------------
(* Paths: [dir, stem, ext].  dir = "" is the working directory.            *)

Path(d, s, e) == [dir |-> d, stem |-> s, ext |-> e]
Dirs == {"out"}                      \* the directories that exist
is_dir(p) == p.dir = "" /\ p.ext = "" /\ p.stem \in Dirs
path_extension(p) == p.ext           \* Path::extension, "" when there is none
with_extension(p, e) == [p EXCEPT !.ext = e]
\* Path::new(dir).join(file_name of src)
join_file_name(dirp, src) == Path(dirp.stem, src.stem, src.ext)
has_file_name(p) == p.stem # ""
\* File::create succeeds when the parent directory exists and p is no directory
CanCreate(p) == (p.dir = "" \/ p.dir \in Dirs) /\ ~is_dir(p) /\ p.stem # ""

----------------------------------------------------------------------------
(* Pixel buffers (image::DynamicImage): actual dimensions and layout.      *)

Image(w, h, c) == [w |-> w, h |-> h, color |-> c]

\* DynamicImage::grayscale: the luma layout of the same depth; the 32F
\* layouts keep their type
GrayColor(c) ==
    CASE c \in {"L8", "Rgb8"} -> "L8"
      [] c \in {"La8", "Rgba8"} -> "La8"
      [] c \in {"L16", "Rgb16"} -> "L16"
      [] c \in {"La16", "Rgba16"} -> "La16"
      [] OTHER -> c
ImageGrayscale(img) == [img EXCEPT !.color = GrayColor(img.color)]

\* Round half away from zero of n/d for n >= 0, d > 0 (f64::round)
RoundDiv(n, d) == (2 * n + d) \div (2 * d)

\* DynamicImage::resize(nwidth, nheight, filter): the aspect ratio is kept,
\* the image is scaled to the largest size that fits in nwidth x nheight,
\* and no side becomes smaller than 1.
ImageResize(img, nw, nh) ==
    IF img.w = 0 \/ img.h = 0 THEN img
    ELSE IF nw * img.h <= nh * img.w
         THEN \* the width ratio nw/w is the smaller one
              [img EXCEPT !.w = Max(nw, 1), !.h = Max(RoundDiv(img.h * nw, img.w), 1)]
         ELSE [img EXCEPT !.w = Max(RoundDiv(img.w * nh, img.h), 1), !.h = Max(nh, 1)]

\* DynamicImage::crop(x, y, w, h): the rect is clamped to the image

----------------------------------------------------------------------------
(* Machine arithmetic *)

RECURSIVE Pow2(_)
Pow2(n) == IF n = 0 THEN 1 ELSE 2 * Pow2(n - 1)

\* n/d rounded to the nearest integer, ties to even (IEEE round-to-nearest)
RoundHalfEven(n, d) ==
    LET q == n \div d
        r == n % d
    IN  IF 2 * r > d \/ (2 * r = d /\ q % 2 = 1) THEN q + 1 ELSE q

\* Smallest s with n * 2^s >= lo
RECURSIVE ScaleShift(_, _)
ScaleShift(n, lo) == IF n >= lo THEN 0 ELSE 1 + ScaleShift(2 * n, lo)

\* Smallest t with n / 2^t < 2^24
RECURSIVE MantissaShift(_)
MantissaShift(n) == IF n < Pow2(24) THEN 0 ELSE 1 + MantissaShift(n \div 2)

\* (dim as f32 * (resize_ratio as f32 / 100.0)) as usize, in f32 arithmetic
\* (24 bit significand, two roundings), for 0 <= dim <= 127 and
\* ratio <= 255; the cast truncates and turns a negative product into 0.
ScaleDimF32(dim, ratio) ==
    IF ratio <= 0 THEN 0 ELSE
    LET s  == ScaleShift(ratio, 100 * Pow2(23))
        mk == RoundHalfEven(ratio * Pow2(s), 100)   \* ratio/100 = mk / 2^s
        p  == dim * mk
        t  == MantissaShift(p)
        mp == RoundHalfEven(p, Pow2(t))             \* dim*k = mp * 2^t / 2^s
    IN  mp \div Pow2(s - t)

\* u32 and usize values.  TLC's integers are 32 bit signed, so a
\* value v >= 2^31 is held as v - 2^32 (its two's complement reading).
MaxI32 == 2147483646 + 1
IsBig(a) == a < 0
\* wrapping u32 addition (release build)
U32Add(a, b) ==
    IF a >= 0 /\ b >= 0
    THEN IF a > MaxI32 - b
         THEN ((a - MaxI32) - 1) + ((b - MaxI32) - 1)
         ELSE a + b
    ELSE IF a < 0 /\ b < 0
    THEN IF a < ((-MaxI32) - 1) - b
         THEN ((a + MaxI32) + 1) + ((b + MaxI32) + 1)
         ELSE a + b
    ELSE a + b
\* unsigned a < b
ULt(a, b) == IF IsBig(a) = IsBig(b) THEN a < b ELSE IsBig(b)
\* u32 subtraction a - b for a >= b (unsigned)
U32Sub(a, b) ==
    IF IsBig(a) /\ ~IsBig(b) /\ a < (-MaxI32 - 1) + b
    THEN (a + MaxI32 + 1) - b + MaxI32 + 1
    ELSE a - b
UMin(a, b) == IF ULt(a, b) THEN a ELSE b

\* DynamicImage::crop(x, y, w, h): the rect is clamped to the image
ImageCrop(img, x, y, w, h) ==
    LET cx == UMin(x, img.w)
        cy == UMin(y, img.h)
    IN  [img EXCEPT !.w = UMin(w, img.w - cx), !.h = UMin(h, img.h - cy)]

----------------------------------------------------------------------------
(* Bytes, codecs and the file system *)

Bytes(origin, format, image, param) ==
    [origin |-> origin, format |-> format, image |-> image, param |-> param,
     len |-> IF IsSome(image) THEN 1 + Unwrap(image).w * Unwrap(image).h ELSE 1]

\* image::guess_format: the format of the magic signature, "" when none matches
guess_format(buf) == buf.format
\* image::load_from_memory / dep_webp::Decoder::decode
Decode(buf) == buf.image
\* std::fs::Metadata of a file holding buf
Metadata(buf) == [len |-> buf.len]

\* ImageFormat::from_path: the format named by the extension, "" when unknown
FormatOfExtension(e) ==
    CASE e \in {"jpg", "jpeg"} -> "jpeg"
      [] e = "png" -> "png"
      [] e = "webp" -> "webp"
      [] e = "bmp" -> "bmp"
      [] OTHER -> ""

\* the PNG encoder of the image crate has no 32 bit float layouts
PngEncodable(img) == img.color \notin {"Rgb32F", "Rgba32F"}

WriteFile(fs, p, buf) == [q \in DOMAIN fs \cup {p} |-> IF q = p THEN buf ELSE fs[q]]

\* DynamicImage::save(path): encodes in the format named by the extension
\* of path and writes the file
ImageSave(fs, img, p) ==
    LET fmt == FormatOfExtension(path_extension(p))
    IN  IF fmt = "" \/ ~CanCreate(p) \/ (fmt = "png" /\ ~PngEncodable(img))
        THEN [err |-> "FailedToSaveImage", files |-> fs]
        ELSE [err |-> "", files |-> WriteFile(fs, p, Bytes("image_save", fmt, Some(img), F32(0)))]

\* dep_webp::Encoder::from_rgba(image.to_rgba8(), w, h).encode(quality)
WebpEncode(img, quality) ==
    Bytes("webp_encode", "webp", Some([img EXCEPT !.color = "Rgba8"]), quality)

----------------------------------------------------------------------------
(* BackendTrait: results and provided methods (src/backend.rs) *)

ImgSize(w, h) == [width |-> w, height |-> h]
Rect(x, y, w, h) == [x |-> x, y |-> y, w |-> w, h |-> h]

\* the result of a backend method: error ("" for Ok), backend, files, value
Result(err, d, fs, ret) == [err |-> err, data |-> d, files |-> fs, ret |-> ret]

get_save_filepath(source_filepath, destination_filepath, new_extension) ==
    IF IsSome(destination_filepath)
    THEN LET path == Unwrap(destination_filepath)
         IN  IF is_dir(path)
             THEN IF IsNone(source_filepath)
                  THEN [err |-> "DestinationPathMustBeSpecified", path |-> path]
                  ELSE IF ~has_file_name(Unwrap(source_filepath))
                  THEN [err |-> "FailedToGetFilename", path |-> path]
                  ELSE [err |-> "",
                        path |-> with_extension(join_file_name(path, Unwrap(source_filepath)),
                                                new_extension)]
             ELSE [err |-> "", path |-> path]
    ELSE IF IsNone(source_filepath)
         THEN [err |-> "DestinationPathMustBeSpecified", path |-> Path("", "", "")]
         ELSE [err |-> "", path |-> with_extension(Unwrap(source_filepath), new_extension)]

\* the bounds check and edge correction shared by every backend's trim
TrimRect(width, height, trim) ==
    LET xw == U32Add(trim.x, trim.w)
        yh == U32Add(trim.y, trim.h)
    IN  IF ULt(width, xw) \/ ULt(height, yh)
        THEN IF ULt(trim.x, width) /\ ULt(trim.y, height)
             THEN [err |-> "",
                   w |-> IF ULt(width, xw) THEN U32Sub(width, trim.x) ELSE trim.w,
                   h |-> IF ULt(height, yh) THEN U32Sub(height, trim.y) ELSE trim.h]
             ELSE [err |-> "InvalidTrimXY", w |-> trim.w, h |-> trim.h]
        ELSE [err |-> "", w |-> trim.w, h |-> trim.h]

\* a backend: the fields of JpegImage, PngImage, WebpImage and EmptyImage
\* (width and height are size.width and size.height)
Backend(type, image, binary_data, size, extension_str, src_meta, src_path) ==
    [type |-> type, image |-> image, image_bytes |-> None,
     binary_data |-> binary_data, size |-> size, operations_count |-> 0,
     required_quality |-> None, extension_str |-> extension_str,
     metadata_input |-> src_meta, metadata_output |-> None,
     filepath_input |-> src_path, filepath_output |-> None]

SizeOf(img) == ImgSize(img.w, img.h)

----------------------------------------------------------------------------
(* WebpImage (src/backend/webp/mod.rs) *)

WebpImage_import(image, source_path, source_metadata) ==
    IF IsNone(image) THEN [err |-> "ImageNotSpecified", data |-> None]
    ELSE [err |-> "",
          data |-> Some(Backend("Webp", image, None, Some(SizeOf(Unwrap(image))), "",
                                source_metadata, source_path))]

WebpImage_open(path, image_buf, metadata) ==
    IF IsNone(path) \/ IsNone(image_buf) \/ IsNone(metadata)
    THEN [err |-> "ImageNotSpecified", data |-> None]
    ELSE IF IsNone(Decode(Unwrap(image_buf)))
    THEN [err |-> "FailedToDecodeWebp", data |-> None]
    ELSE LET image == Decode(Unwrap(image_buf))
         IN  [err |-> "",
              data |-> Some([Backend("Webp", image, None, Some(SizeOf(Unwrap(image))), "",
                                     metadata, path)
                             EXCEPT !.image_bytes = image_buf])]

\* the file extension of filepath_input is "webp"
WebpImage_source_is_webp(d) ==
    IsSome(d.filepath_input) /\ path_extension(Unwrap(d.filepath_input)) = "webp"

\* a save that records the destination path and not its metadata
WebpImage_save_PathOnly(d, fs, path) ==
    LET sp == get_save_filepath(d.filepath_input, path, "webp")
        quality == IF IsSome(d.required_quality) THEN Unwrap(d.required_quality) ELSE F32(75)
        passthrough == WebpImage_source_is_webp(d) /\ d.operations_count = 0
                       /\ IsSome(d.image_bytes)
        out == IF passthrough THEN Unwrap(d.image_bytes)
               ELSE WebpEncode(Unwrap(d.image), quality)
    IN  IF sp.err # "" THEN Result(sp.err, d, fs, None)
        ELSE IF ~CanCreate(sp.path) THEN Result("FailedToCreateFile", d, fs, None)
        ELSE Result("", [d EXCEPT !.filepath_output = Some(sp.path)],
                    WriteFile(fs, sp.path, out), None)

WebpImage_save(d, fs, path) ==
    LET sp == get_save_filepath(d.filepath_input, path, "webp")
        quality == IF IsSome(d.required_quality) THEN Unwrap(d.required_quality) ELSE F32(75)
        passthrough == WebpImage_source_is_webp(d) /\ d.operations_count = 0
                       /\ IsSome(d.image_bytes)
        out == IF passthrough THEN Unwrap(d.image_bytes)
               ELSE WebpEncode(Unwrap(d.image), quality)
    IN  IF sp.err # "" THEN Result(sp.err, d, fs, None)
        ELSE IF ~CanCreate(sp.path) THEN Result("FailedToCreateFile", d, fs, None)
        ELSE Result("", [d EXCEPT !.metadata_output = Some(Metadata(out)),
                                  !.filepath_output = Some(sp.path)],
                    WriteFile(fs, sp.path, out), None)

\* a compress that keeps a quality stored by an earlier compress
WebpImage_compress_FirstWins(d, fs, quality) ==
    Result("", [d EXCEPT !.required_quality = IF IsSome(@) THEN @ ELSE quality,
                         !.operations_count = @ + 1], fs, None)

WebpImage_compress(d, fs, quality) ==
    Result("", [d EXCEPT !.required_quality = quality,
                         !.operations_count = @ + 1], fs, None)

WebpImage_resize(d, fs, resize_ratio) ==
    LET nwidth == ScaleDimF32(Unwrap(d.size).width, resize_ratio)
        nheight == ScaleDimF32(Unwrap(d.size).height, resize_ratio)
    IN  Result("", [d EXCEPT !.image = Some(ImageResize(Unwrap(d.image), nwidth, nheight)),
                             !.size = Some(ImgSize(nwidth, nheight)),
                             !.operations_count = @ + 1],
               fs, Some(ImgSize(nwidth, nheight)))

WebpImage_trim(d, fs, trim) ==
    LET t == TrimRect(Unwrap(d.size).width, Unwrap(d.size).height, trim)
    IN  IF t.err # "" THEN Result(t.err, d, fs, None)
        ELSE Result("", [d EXCEPT !.image = Some(ImageCrop(Unwrap(d.image), trim.x, trim.y, t.w, t.h)),
                                  !.size = Some(ImgSize(t.w, t.h))],
                    fs, Some(ImgSize(t.w, t.h)))

WebpImage_grayscale(d, fs) ==
    Result("", [d EXCEPT !.image = Some(ImageGrayscale(Unwrap(d.image))),
                         !.operations_count = @ + 1], fs, None)

WebpImage_set_dynamic_image(d, fs, image) ==
    Result("", [d EXCEPT !.image = Some(image)], fs, None)

----------------------------------------------------------------------------
(* PngImage (src/backend/png/mod.rs) *)

PngImage_import(image, source_path, source_metadata) ==
    IF IsNone(image) THEN [err |-> "ImageNotSpecified", data |-> None]
    ELSE IF ~PngEncodable(Unwrap(image))
    THEN [err |-> "FailedToCopyBinaryData", data |-> None]
    ELSE [err |-> "",
          data |-> Some(Backend("Png", image,
                                Some(Bytes("image_write_to", "png", image, F32(0))),
                                Some(SizeOf(Unwrap(image))), "",
                                source_metadata, source_path))]

PngImage_open(path, image_buf, metadata) ==
    IF IsNone(path) \/ IsNone(image_buf) \/ IsNone(metadata)
    THEN [err |-> "ImageNotSpecified", data |-> None]
    ELSE IF IsNone(Decode(Unwrap(image_buf)))
    THEN [err |-> "FailedToOpenImage", data |-> None]
    ELSE LET image == Decode(Unwrap(image_buf))
         IN  [err |-> "",
              data |-> Some(Backend("Png", image, image_buf, Some(SizeOf(Unwrap(image))), "",
                                    metadata, path))]

\* a save that records the destination path before writing
PngImage_save_PathFirst(d, fs, path) ==
    LET sp == get_save_filepath(d.filepath_input, path, "png")
        d2 == [d EXCEPT !.filepath_output = Some(sp.path)]
    IN  IF sp.err # "" THEN Result(sp.err, d, fs, None)
        ELSE IF IsNone(d.image_bytes)
        THEN LET w == ImageSave(fs, Unwrap(d.image), sp.path)
             IN  IF w.err # "" THEN Result(w.err, d2, fs, None)
                 ELSE Result("", [d2 EXCEPT !.metadata_output = Some(Metadata(w.files[sp.path]))],
                             w.files, None)
        ELSE IF ~CanCreate(sp.path) THEN Result("FailedToCreateFile", d2, fs, None)
        ELSE Result("", [d2 EXCEPT !.metadata_output = Some(Metadata(Unwrap(d.image_bytes)))],
                    WriteFile(fs, sp.path, Unwrap(d.image_bytes)), None)

PngImage_save(d, fs, path) ==
    LET sp == get_save_filepath(d.filepath_input, path, "png")
    IN  IF sp.err # "" THEN Result(sp.err, d, fs, None)
        ELSE IF IsNone(d.image_bytes)
        THEN LET w == ImageSave(fs, Unwrap(d.image), sp.path)
             IN  IF w.err # "" THEN Result(w.err, d, fs, None)
                 ELSE Result("", [d EXCEPT !.metadata_output = Some(Metadata(w.files[sp.path])),
                                           !.filepath_output = Some(sp.path)],
                             w.files, None)
        ELSE IF ~CanCreate(sp.path) THEN Result("FailedToCreateFile", d, fs, None)
        ELSE Result("", [d EXCEPT !.metadata_output = Some(Metadata(Unwrap(d.image_bytes))),
                                  !.filepath_output = Some(sp.path)],
                    WriteFile(fs, sp.path, Unwrap(d.image_bytes)), None)

\* the oxipng preset chosen for a quality
\* the mapping with the first threshold exclusive
PngImage_level_Exclusive(quality) ==
    IF IsSome(quality)
    THEN LET q == Unwrap(quality)
         IN  IF FLt(q, F32(17)) THEN 1
             ELSE IF FGt(q, F32(17)) /\ FLe(q, F32(34)) THEN 2
             ELSE IF FGt(q, F32(34)) /\ FLe(q, F32(51)) THEN 3
             ELSE IF FGt(q, F32(51)) /\ FLe(q, F32(68)) THEN 4
             ELSE IF FGt(q, F32(68)) /\ FLe(q, F32(85)) THEN 5
             ELSE 6
    ELSE 5

PngImage_level(quality) ==
    IF IsSome(quality)
    THEN LET q == Unwrap(quality)
         IN  IF FLe(q, F32(17)) THEN 1
             ELSE IF FGt(q, F32(17)) /\ FLe(q, F32(34)) THEN 2
             ELSE IF FGt(q, F32(34)) /\ FLe(q, F32(51)) THEN 3
             ELSE IF FGt(q, F32(51)) /\ FLe(q, F32(68)) THEN 4
             ELSE IF FGt(q, F32(68)) /\ FLe(q, F32(85)) THEN 5
             ELSE 6
    ELSE 5

\* oxipng::optimize_from_memory(binary_data, Options::from_preset(level))
Oxipng(binary_data, level) ==
    IF binary_data.format = "png" /\ IsSome(binary_data.image)
    THEN Some(Bytes("oxipng", "png", binary_data.image, F32(level)))
    ELSE None

PngImage_compress(d, fs, quality) ==
    LET out == Oxipng(Unwrap(d.binary_data), PngImage_level(quality))
    IN  IF IsSome(out)
        THEN Result("", [d EXCEPT !.image_bytes = out, !.operations_count = @ + 1], fs, None)
        ELSE Result("panic", d, fs, None)   \* oxipng_err.unwrap() on an Err

PngImage_resize(d, fs, resize_ratio) ==
    LET nwidth == ScaleDimF32(Unwrap(d.size).width, resize_ratio)
        nheight == ScaleDimF32(Unwrap(d.size).height, resize_ratio)
    IN  Result("", [d EXCEPT !.image = Some(ImageResize(Unwrap(d.image), nwidth, nheight)),
                             !.size = Some(ImgSize(nwidth, nheight)),
                             !.operations_count = @ + 1],
               fs, Some(ImgSize(nwidth, nheight)))

PngImage_trim(d, fs, trim) ==
    LET t == TrimRect(Unwrap(d.size).width, Unwrap(d.size).height, trim)
    IN  IF t.err # "" THEN Result(t.err, d, fs, None)
        ELSE Result("", [d EXCEPT !.image = Some(ImageCrop(Unwrap(d.image), trim.x, trim.y, t.w, t.h)),
                                  !.size = Some(ImgSize(t.w, t.h))],
                    fs, Some(ImgSize(t.w, t.h)))

PngImage_grayscale(d, fs) ==
    Result("", [d EXCEPT !.image = Some(ImageGrayscale(Unwrap(d.image))),
                         !.operations_count = @ + 1], fs, None)

PngImage_set_dynamic_image(d, fs, image) ==
    Result("", [d EXCEPT !.image = Some(image)], fs, None)

----------------------------------------------------------------------------
(* JpegImage (src/backend/jpeg/mod.rs) *)

\* the free function remove_alpha_channel of the jpeg backend
remove_alpha_channel(image) ==
    IF image.color = "Rgba8" THEN [image EXCEPT !.color = "Rgb8"]
    ELSE IF image.color = "Rgba16" THEN [image EXCEPT !.color = "Rgb16"]
    ELSE IF image.color = "Rgba32F" THEN [image EXCEPT !.color = "Rgb32F"]
    ELSE image

JpegImage_import(image, source_path, source_metadata) ==
    IF IsNone(image) THEN [err |-> "ImageNotSpecified", data |-> None]
    ELSE [err |-> "",
          data |-> Some(Backend("Jpeg", Some(remove_alpha_channel(Unwrap(image))), None,
                                Some(SizeOf(Unwrap(image))), "jpg",
                                source_metadata, source_path))]

JpegImage_open(path, image_buf, metadata) ==
    IF IsNone(path) \/ IsNone(image_buf) \/ IsNone(metadata)
    THEN [err |-> "ImageNotSpecified", data |-> None]
    ELSE IF IsNone(Decode(Unwrap(image_buf)))
    THEN [err |-> "FailedToOpenImage", data |-> None]
    ELSE LET image == Unwrap(Decode(Unwrap(image_buf)))
         IN  [err |-> "",
              data |-> Some(Backend("Jpeg", Some(remove_alpha_channel(image)), None,
                                    Some(SizeOf(image)), path_extension(Unwrap(path)),
                                    metadata, path))]

JpegImage_save(d, fs, path) ==
    LET sp == get_save_filepath(d.filepath_input, path, d.extension_str)
    IN  IF sp.err # "" THEN Result(sp.err, d, fs, None)
        ELSE IF IsNone(d.image_bytes)
        THEN LET w == ImageSave(fs, [Unwrap(d.image) EXCEPT !.color = "Rgba8"], sp.path)
             IN  IF w.err # "" THEN Result(w.err, d, fs, None)
                 ELSE Result("", [d EXCEPT !.metadata_output = Some(Metadata(w.files[sp.path])),
                                           !.filepath_output = Some(sp.path)],
                             w.files, None)
        ELSE IF ~CanCreate(sp.path) THEN Result("FailedToCreateFile", d, fs, None)
        ELSE Result("", [d EXCEPT !.metadata_output = Some(Metadata(Unwrap(d.image_bytes))),
                                  !.filepath_output = Some(sp.path)],
                    WriteFile(fs, sp.path, Unwrap(d.image_bytes)), None)

\* mozjpeg::Compress of size.width x size.height at the quality
JpegImage_compress(d, fs, quality) ==
    LET q == IF IsSome(quality) THEN Unwrap(quality) ELSE F32(75)
        out == Bytes("mozjpeg", "jpeg",
                     Some(Image(Unwrap(d.size).width, Unwrap(d.size).height, "Rgb8")), q)
    IN  Result("", [d EXCEPT !.image_bytes = Some(out), !.operations_count = @ + 1], fs, None)

JpegImage_resize(d, fs, resize_ratio) ==
    LET nwidth == ScaleDimF32(Unwrap(d.size).width, resize_ratio)
        nheight == ScaleDimF32(Unwrap(d.size).height, resize_ratio)
    IN  Result("", [d EXCEPT !.image = Some(ImageResize(Unwrap(d.image), nwidth, nheight)),
                             !.size = Some(ImgSize(nwidth, nheight)),
                             !.operations_count = @ + 1],
               fs, Some(ImgSize(nwidth, nheight)))

JpegImage_trim(d, fs, trim) ==
    LET t == TrimRect(Unwrap(d.size).width, Unwrap(d.size).height, trim)
    IN  IF t.err # "" THEN Result(t.err, d, fs, None)
        ELSE Result("", [d EXCEPT !.image = Some(ImageCrop(Unwrap(d.image), trim.x, trim.y, t.w, t.h)),
                                  !.size = Some(ImgSize(t.w, t.h))],
                    fs, Some(ImgSize(t.w, t.h)))

JpegImage_grayscale(d, fs) ==
    Result("", [d EXCEPT !.image = Some(ImageGrayscale(Unwrap(d.image))),
                         !.operations_count = @ + 1], fs, None)

JpegImage_set_dynamic_image(d, fs, image) ==
    Result("", [d EXCEPT !.image = Some(remove_alpha_channel(image))], fs, None)

----------------------------------------------------------------------------
(* EmptyImage (src/backend/empty/mod.rs): image, size and source_path only *)

EmptyImage_import(image, source_path, source_metadata) ==
    [err |-> "",
     data |-> Some(Backend("Empty", image,
                           None, IF IsSome(image) THEN Some(SizeOf(Unwrap(image))) ELSE None,
                           "", None, source_path))]

\* a save that writes the pixel buffer to the given destination
EmptyImage_save_Writes(d, fs, path) ==
    IF IsSome(d.image) /\ IsSome(path) /\ CanCreate(Unwrap(path))
    THEN Result("", d, WriteFile(fs, Unwrap(path), Bytes("image_save", "png", d.image, F32(0))), None)
    ELSE Result("UnsupportedFeature", d, fs, None)

EmptyImage_save(d, fs, path) == Result("UnsupportedFeature", d, fs, None)

EmptyImage_compress(d, fs, quality) == Result("ImageFormatCannotBeCompressed", d, fs, None)

\* the assignments to self.size.unwrap().width/height write a temporary copy
\* of the ImgSize: self.size keeps its value and is what resize returns
EmptyImage_resize(d, fs, resize_ratio) ==
    IF IsNone(d.image) \/ IsNone(d.size) THEN Result("ImageNotSpecified", d, fs, None)
    ELSE LET nwidth == ScaleDimF32(Unwrap(d.size).width, resize_ratio)
             nheight == ScaleDimF32(Unwrap(d.size).height, resize_ratio)
         IN  Result("", [d EXCEPT !.image = Some(ImageResize(Unwrap(d.image), nwidth, nheight))],
                    fs, d.size)

EmptyImage_trim(d, fs, trim) ==
    IF IsNone(d.image) \/ IsNone(d.size) THEN Result("ImageNotSpecified", d, fs, None)
    ELSE LET t == TrimRect(Unwrap(d.size).width, Unwrap(d.size).height, trim)
         IN  IF t.err # "" THEN Result(t.err, d, fs, None)
             ELSE Result("", [d EXCEPT !.image = Some(ImageCrop(Unwrap(d.image), trim.x, trim.y, t.w, t.h)),
                                       !.size = Some(ImgSize(t.w, t.h))],
                         fs, Some(ImgSize(t.w, t.h)))

\* self.image.clone().unwrap() panics when there is no image
EmptyImage_grayscale(d, fs) ==
    IF IsNone(d.image) THEN Result("panic", d, fs, None)
    ELSE Result("", [d EXCEPT !.image = Some(ImageGrayscale(Unwrap(d.image)))], fs, None)

EmptyImage_set_dynamic_image(d, fs, image) ==
    Result("", [d EXCEPT !.image = Some(image)], fs, None)

----------------------------------------------------------------------------
(* The Bmp backend: section 4 of the specification *)

BmpImage_import(image, source_path, source_metadata) ==
    IF IsNone(image) THEN [err |-> "ImageNotSpecified", data |-> None]
    ELSE [err |-> "",
          data |-> Some(Backend("Bmp", image, None, Some(SizeOf(Unwrap(image))), "",
                                source_metadata, source_path))]

BmpImage_open(path, image_buf, metadata) ==
    IF IsNone(path) \/ IsNone(image_buf) \/ IsNone(metadata)
    THEN [err |-> "ImageNotSpecified", data |-> None]
    ELSE IF IsNone(Decode(Unwrap(image_buf)))
    THEN [err |-> "FailedToOpenImage", data |-> None]
    ELSE LET image == Decode(Unwrap(image_buf))
         IN  [err |-> "",
              data |-> Some(Backend("Bmp", image, None, Some(SizeOf(Unwrap(image))), "",
                                    metadata, path))]

\* always encodes the live pixel buffer
BmpImage_save(d, fs, path) ==
    LET sp == get_save_filepath(d.filepath_input, path, "bmp")
        out == Bytes("bmp_encode", "bmp", d.image, F32(0))
    IN  IF sp.err # "" THEN Result(sp.err, d, fs, None)
        ELSE IF ~CanCreate(sp.path) THEN Result("FailedToSaveImage", d, fs, None)
        ELSE Result("", [d EXCEPT !.metadata_output = Some(Metadata(out)),
                                  !.filepath_output = Some(sp.path)],
                    WriteFile(fs, sp.path, out), None)

\* always fails
BmpImage_compress(d, fs, quality) == Result("ImageFormatCannotBeCompressed", d, fs, None)

BmpImage_resize(d, fs, resize_ratio) ==
    LET nwidth == (Unwrap(d.size).width * resize_ratio) \div 100
        nheight == (Unwrap(d.size).height * resize_ratio) \div 100
    IN  Result("", [d EXCEPT !.image = Some(ImageResize(Unwrap(d.image), nwidth, nheight)),
                             !.size = Some(ImgSize(nwidth, nheight)),
                             !.operations_count = @ + 1],
               fs, Some(ImgSize(nwidth, nheight)))

BmpImage_trim(d, fs, trim) ==
    LET width == Unwrap(d.size).width
        height == Unwrap(d.size).height
    IN  IF ~(ULt(trim.x, width) /\ ULt(trim.y, height))
        THEN Result("InvalidTrimXY", d, fs, None)
        ELSE LET w == UMin(trim.w, U32Sub(width, trim.x))
                 h == UMin(trim.h, U32Sub(height, trim.y))
             IN  Result("", [d EXCEPT !.image = Some(ImageCrop(Unwrap(d.image), trim.x, trim.y, w, h)),
                                      !.size = Some(ImgSize(w, h)),
                                      !.operations_count = @ + 1],
                        fs, Some(ImgSize(w, h)))

BmpImage_grayscale(d, fs) ==
    Result("", [d EXCEPT !.image = Some(ImageGrayscale(Unwrap(d.image))),
                         !.operations_count = @ + 1], fs, None)

BmpImage_set_dynamic_image(d, fs, image) ==
    Result("", [d EXCEPT !.image = Some(image)], fs, None)

----------------------------------------------------------------------------
(* Dynamic dispatch on the backend held in Box<dyn BackendTrait> *)

Backend_save(d, fs, path) ==
    CASE d.type = "Webp" -> WebpImage_save(d, fs, path)
      [] d.type = "Png" -> PngImage_save(d, fs, path)
      [] d.type = "Jpeg" -> JpegImage_save(d, fs, path)
      [] d.type = "Bmp" -> BmpImage_save(d, fs, path)
      [] OTHER -> EmptyImage_save(d, fs, path)

Backend_compress(d, fs, quality) ==
    CASE d.type = "Webp" -> WebpImage_compress(d, fs, quality)
      [] d.type = "Png" -> PngImage_compress(d, fs, quality)
      [] d.type = "Jpeg" -> JpegImage_compress(d, fs, quality)
      [] d.type = "Bmp" -> BmpImage_compress(d, fs, quality)
      [] OTHER -> EmptyImage_compress(d, fs, quality)

Backend_resize(d, fs, ratio) ==
    CASE d.type = "Webp" -> WebpImage_resize(d, fs, ratio)
      [] d.type = "Png" -> PngImage_resize(d, fs, ratio)
      [] d.type = "Jpeg" -> JpegImage_resize(d, fs, ratio)
      [] d.type = "Bmp" -> BmpImage_resize(d, fs, ratio)
      [] OTHER -> EmptyImage_resize(d, fs, ratio)

Backend_trim(d, fs, trim) ==
    CASE d.type = "Webp" -> WebpImage_trim(d, fs, trim)
      [] d.type = "Png" -> PngImage_trim(d, fs, trim)
      [] d.type = "Jpeg" -> JpegImage_trim(d, fs, trim)
      [] d.type = "Bmp" -> BmpImage_trim(d, fs, trim)
      [] OTHER -> EmptyImage_trim(d, fs, trim)

Backend_grayscale(d, fs) ==
    CASE d.type = "Webp" -> WebpImage_grayscale(d, fs)
      [] d.type = "Png" -> PngImage_grayscale(d, fs)
      [] d.type = "Jpeg" -> JpegImage_grayscale(d, fs)
      [] d.type = "Bmp" -> BmpImage_grayscale(d, fs)
      [] OTHER -> EmptyImage_grayscale(d, fs)

Backend_set_dynamic_image(d, fs, image) ==
    CASE d.type = "Webp" -> WebpImage_set_dynamic_image(d, fs, image)
      [] d.type = "Png" -> PngImage_set_dynamic_image(d, fs, image)
      [] d.type = "Jpeg" -> JpegImage_set_dynamic_image(d, fs, image)
      [] d.type = "Bmp" -> BmpImage_set_dynamic_image(d, fs, image)
      [] OTHER -> EmptyImage_set_dynamic_image(d, fs, image)

\* EmptyImage reports no source path and no source metadata
get_source_filepath(d) == IF d.type = "Empty" THEN None ELSE d.filepath_input
get_metadata_src(d) == IF d.type = "Empty" THEN None ELSE d.metadata_input
get_metadata_dest(d) == IF d.type = "Empty" THEN None ELSE d.metadata_output
\* get_size: EmptyImage fails without a size
get_size(d) == d.size
\* get_destination_filepath: Ok(filepath_output); EmptyImage returns
\* Err(UnsupportedFeature)
get_destination_filepath(d) ==
    IF d.type = "Empty" THEN [err |-> "UnsupportedFeature", path |-> None]
    ELSE [err |-> "", path |-> d.filepath_output]

\* the provided method remove_alpha_channel of BackendTrait
BackendTrait_remove_alpha_channel(d, fs) ==
    IF IsNone(get_size(d)) THEN Result("ImageNotSpecified", d, fs, None)
    ELSE IF Unwrap(get_size(d)).width = 0 \/ Unwrap(get_size(d)).height = 0
    THEN Result("ImageNotSpecified", d, fs, None)
    ELSE IF IsNone(d.image) THEN Result("panic", d, fs, None)  \* EmptyImage::get_dynamic_image
    ELSE IF Unwrap(d.image).color = "Rgba8"
    THEN Backend_set_dynamic_image(d, fs, [Unwrap(d.image) EXCEPT !.color = "Rgb8"])
    ELSE Result("", d, fs, None)

----------------------------------------------------------------------------
(* Dispatcher (src/backend.rs): open_image, new_image, convert_to_*_image *)

\* open_<format>_image: the backend's open when the feature is enabled
open_format_image(feats, format, path, buf, metadata_input) ==
    CASE format = "bmp" ->
           IF "bmp" \in feats THEN BmpImage_open(Some(path), Some(buf), Some(metadata_input))
           ELSE [err |-> "UnsupportedFileExtension", data |-> None]
      [] format = "jpeg" ->
           IF "jpeg" \in feats THEN JpegImage_open(Some(path), Some(buf), Some(metadata_input))
           ELSE [err |-> "UnsupportedFileExtension", data |-> None]
      [] format = "png" ->
           IF "png" \in feats THEN PngImage_open(Some(path), Some(buf), Some(metadata_input))
           ELSE [err |-> "UnsupportedFileExtension", data |-> None]
      [] format = "webp" ->
           IF "webp" \in feats THEN WebpImage_open(Some(path), Some(buf), Some(metadata_input))
           ELSE [err |-> "UnsupportedFileExtension", data |-> None]
      [] OTHER -> [err |-> "UnsupportedFileExtension", data |-> None]

\* a tagging that marks an opened Jpeg file as Png
ExtensionOfFormat_JpegAsPng(format) ==
    CASE format = "bmp" -> Bmp
      [] format = "jpeg" -> Png
      [] format = "png" -> Png
      [] OTHER -> Webp

\* the Extension open_<format>_image tags the RusImg with
ExtensionOfFormat(format) ==
    CASE format = "bmp" -> Bmp
      [] format = "jpeg" -> Jpeg
      [] format = "png" -> Png
      [] OTHER -> Webp

\* an open that takes the format from the file name
open_image_ByExtension(feats, fs, path) ==
    IF path \notin DOMAIN fs
    THEN [err |-> "FailedToOpenFile", extension |-> None, data |-> None]
    ELSE LET buf == fs[path]
             format == FormatOfExtension(path_extension(path))
         IN  IF format = ""
             THEN [err |-> "FailedToOpenImage", extension |-> None, data |-> None]
             ELSE LET r == open_format_image(feats, format, path, buf, Metadata(buf))
                  IN  [err |-> r.err,
                       extension |-> IF r.err = "" THEN Some(ExtensionOfFormat(format)) ELSE None,
                       data |-> r.data]

\* an open that builds an EmptyImage for a path that does not exist
open_image_EmptyWhenMissing(feats, fs, path) ==
    IF path \notin DOMAIN fs
    THEN [err |-> "", extension |-> Some(ExternalFormat("empty")),
          data |-> EmptyImage_import(None, Some(path), None).data]
    ELSE LET buf == fs[path]
             format == guess_format(buf)
         IN  IF format = ""
             THEN [err |-> "FailedToOpenImage", extension |-> None, data |-> None]
             ELSE LET r == open_format_image(feats, format, path, buf, Metadata(buf))
                  IN  [err |-> r.err,
                       extension |-> IF r.err = "" THEN Some(ExtensionOfFormat(format)) ELSE None,
                       data |-> r.data]

open_image(feats, fs, path) ==
    IF path \notin DOMAIN fs
    THEN [err |-> "FailedToOpenFile", extension |-> None, data |-> None]
    ELSE LET buf == fs[path]
             format == guess_format(buf)
         IN  IF format = ""
             THEN [err |-> "FailedToOpenImage", extension |-> None, data |-> None]
             ELSE LET r == open_format_image(feats, format, path, buf, Metadata(buf))
                  IN  [err |-> r.err,
                       extension |-> IF r.err = "" THEN Some(ExtensionOfFormat(format)) ELSE None,
                       data |-> r.data]

new_image(feats, ext, image) ==
    LET r == CASE ext = Bmp ->
                    IF "bmp" \in feats THEN BmpImage_import(Some(image), None, None)
                    ELSE [err |-> "UnsupportedFileExtension", data |-> None]
               [] ext = Jpeg ->
                    IF "jpeg" \in feats THEN JpegImage_import(Some(image), None, None)
                    ELSE [err |-> "UnsupportedFileExtension", data |-> None]
               [] ext = Png ->
                    IF "png" \in feats THEN PngImage_import(Some(image), None, None)
                    ELSE [err |-> "UnsupportedFileExtension", data |-> None]
               [] ext = Webp ->
                    IF "webp" \in feats THEN WebpImage_import(Some(image), None, None)
                    ELSE [err |-> "UnsupportedFileExtension", data |-> None]
               [] OTHER -> [err |-> "UnsupportedFileExtension", data |-> None]
    IN  [err |-> r.err, extension |-> IF r.err = "" THEN Some(ext) ELSE None, data |-> r.data]

\* the match of RusImg::convert over convert_to_<format>_image
convert_to_image(feats, new_extension, dynamic_image, filepath, metadata) ==
    CASE new_extension = Bmp ->
           IF "bmp" \in feats THEN BmpImage_import(Some(dynamic_image), filepath, metadata)
           ELSE [err |-> "UnsupportedFileExtension", data |-> None]
      [] new_extension \in {Jpeg, Jpg} ->
           IF "jpeg" \in feats THEN JpegImage_import(Some(dynamic_image), filepath, metadata)
           ELSE [err |-> "UnsupportedFileExtension", data |-> None]
      [] new_extension = Png ->
           IF "png" \in feats THEN PngImage_import(Some(dynamic_image), filepath, metadata)
           ELSE [err |-> "UnsupportedFileExtension", data |-> None]
      [] new_extension = Webp ->
           IF "webp" \in feats THEN WebpImage_import(Some(dynamic_image), filepath, metadata)
           ELSE [err |-> "UnsupportedFileExtension", data |-> None]
      [] OTHER -> [err |-> "UnsupportedFileExtension", data |-> None]

----------------------------------------------------------------------------
(* RusImg (src/lib.rs): one action per facade method *)

SaveStatus(output_path, before_filesize, after_filesize) ==
    [output_path |-> output_path, before_filesize |-> before_filesize,
     after_filesize |-> after_filesize]

HasDocument == IsSome(data)

\* the state after a facade call that returned err ("" for Ok)
Return(op, arg, err, ext2, data2, files2, size, status, edits2) ==
    /\ extension' = ext2
    /\ data' = data2
    /\ files' = files2
    /\ last' = [op |-> op, arg |-> arg, err |-> err, size |-> size, status |-> status]
    /\ edits' = edits2
    /\ steps' = steps + 1
    /\ UNCHANGED features

\* an Err returned by the facade itself, or a panic: nothing has been written
Fail(op, arg, err) == Return(op, arg, err, extension, data, files, None, None, edits)

\* an Err returned by a method of the backend: the call has run on self.data
Failed(op, arg, r) ==
    Return(op, arg, r.err, extension, Some(r.data), r.files, None, None, edits)

RusImg_open(path) ==
    LET r == open_image(features, files, path)
    IN  IF r.err = ""
        THEN Return("open", path, "", r.extension, r.data, files, None, None, 0)
        ELSE Fail("open", path, r.err)

RusImg_new(ext, image) ==
    LET r == new_image(features, ext, image)
    IN  IF r.err = ""
        THEN Return("new", ext, "", r.extension, r.data, files, None, None, 0)
        ELSE Fail("new", ext, r.err)

\* RusImg::assemble with an EmptyImage built by EmptyImage::import
RusImg_assemble(ext, image, source_path) ==
    Return("assemble", ext, "", Some(ext), EmptyImage_import(image, source_path, None).data,
           files, None, None, 0)

\* the dimensions the f32 arithmetic of resize is modelled for
MaxF32Dim == 127
MaxF32Ratio == 255
ResizeModelled(ratio) ==
    /\ ratio <= MaxF32Ratio
    /\ IsSome(Unwrap(data).size) =>
         /\ Unwrap(Unwrap(data).size).width \in 0..MaxF32Dim
         /\ Unwrap(Unwrap(data).size).height \in 0..MaxF32Dim

\* the facade letting ratio 0 through to the backend
RusImg_resize_ZeroAllowed(ratio) ==
    /\ HasDocument
    /\ ResizeModelled(ratio)
    /\ IF ratio < 0
       THEN Fail("resize", ratio, "InvalidResizeRatio")
       ELSE LET r == Backend_resize(Unwrap(data), files, ratio)
            IN  IF r.err = ""
                THEN Return("resize", ratio, "", extension, Some(r.data), r.files, r.ret, None,
                            edits + 1)
                ELSE Failed("resize", ratio, r)

RusImg_resize(ratio) ==
    /\ HasDocument
    /\ ResizeModelled(ratio)
    /\ IF ratio <= 0
       THEN Fail("resize", ratio, "InvalidResizeRatio")
       ELSE LET r == Backend_resize(Unwrap(data), files, ratio)
            IN  IF r.err = ""
                THEN Return("resize", ratio, "", extension, Some(r.data), r.files, r.ret, None,
                            edits + 1)
                ELSE Failed("resize", ratio, r)

RusImg_trim(trim) ==
    /\ HasDocument
    /\ LET r == Backend_trim(Unwrap(data), files, trim)
       IN  IF r.err = ""
           THEN Return("trim", trim, "", extension, Some(r.data), r.files, r.ret, None, edits + 1)
           ELSE Failed("trim", trim, r)

RusImg_grayscale ==
    /\ HasDocument
    /\ LET r == Backend_grayscale(Unwrap(data), files)
       IN  IF r.err = ""
           THEN Return("grayscale", None, "", extension, Some(r.data), r.files, None, None,
                       edits + 1)
           ELSE Failed("grayscale", None, r)

\* the facade without the range check
RusImg_compress_Unchecked(quality) ==
    /\ HasDocument
    /\ LET r == Backend_compress(Unwrap(data), files, quality)
       IN  IF r.err = ""
           THEN Return("compress", quality, "", extension, Some(r.data), r.files, None, None,
                       edits)
           ELSE Failed("compress", quality, r)

\* the facade rejecting quality 100
RusImg_compress_Below100(quality) ==
    /\ HasDocument
    /\ IF IsSome(quality) /\ (FLt(Unwrap(quality), F32(0)) \/ FLe(F32(100), Unwrap(quality)))
       THEN Fail("compress", quality, "InvalidCompressionLevel")
       ELSE LET r == Backend_compress(Unwrap(data), files, quality)
            IN  IF r.err = ""
                THEN Return("compress", quality, "", extension, Some(r.data), r.files, None, None,
                            edits)
                ELSE Failed("compress", quality, r)

RusImg_compress(quality) ==
    /\ HasDocument
    /\ IF IsSome(quality) /\ (FLt(Unwrap(quality), F32(0)) \/ FGt(Unwrap(quality), F32(100)))
       THEN Fail("compress", quality, "InvalidCompressionLevel")
       ELSE LET r == Backend_compress(Unwrap(data), files, quality)
            IN  IF r.err = ""
                THEN Return("compress", quality, "", extension, Some(r.data), r.files, None, None,
                            edits)
                ELSE Failed("compress", quality, r)

\* a convert that keeps the backend when the target is the current tag
RusImg_convert_SameTagKept(new_extension) ==
    /\ HasDocument
    /\ LET d == Unwrap(data)
       IN  IF IsNone(d.image)
           THEN Fail("convert", new_extension, "panic")
           ELSE LET r == convert_to_image(features, new_extension, Unwrap(d.image),
                                          get_source_filepath(d), get_metadata_src(d))
                IN  IF r.err = ""
                    THEN Return("convert", new_extension, "", Some(new_extension),
                                IF extension = Some(new_extension) THEN data ELSE r.data,
                                files, None, None, 0)
                    ELSE Fail("convert", new_extension, r.err)

\* a convert that replaces the backend and keeps the old tag
RusImg_convert_KeepTag(new_extension) ==
    /\ HasDocument
    /\ LET d == Unwrap(data)
       IN  IF IsNone(d.image)
           THEN Fail("convert", new_extension, "panic")
           ELSE LET r == convert_to_image(features, new_extension, Unwrap(d.image),
                                          get_source_filepath(d), get_metadata_src(d))
                IN  IF r.err = ""
                    THEN Return("convert", new_extension, "", extension, r.data, files,
                                None, None, 0)
                    ELSE Fail("convert", new_extension, r.err)

RusImg_convert(new_extension) ==
    /\ HasDocument
    /\ LET d == Unwrap(data)
       IN  IF IsNone(d.image)
           THEN Fail("convert", new_extension, "panic")   \* EmptyImage::get_dynamic_image
           ELSE LET r == convert_to_image(features, new_extension, Unwrap(d.image),
                                          get_source_filepath(d), get_metadata_src(d))
                IN  IF r.err = ""
                    THEN Return("convert", new_extension, "", Some(new_extension), r.data, files,
                                None, None, 0)
                    ELSE Fail("convert", new_extension, r.err)

RusImg_set_dynamic_image(image) ==
    /\ HasDocument
    /\ LET r == Backend_set_dynamic_image(Unwrap(data), files, image)
       IN  Return("set_dynamic_image", image, "", extension, Some(r.data), r.files, None, None,
                  edits + 1)

\* a set_dynamic_image is counted in edits when the buffer had layout Rgba8
RusImg_remove_alpha_channel ==
    /\ HasDocument
    /\ LET r == BackendTrait_remove_alpha_channel(Unwrap(data), files)
       IN  IF r.err = ""
           THEN Return("remove_alpha_channel", None, "", extension, Some(r.data), r.files,
                       None, None,
                       IF Unwrap(Unwrap(data).image).color = "Rgba8" THEN edits + 1 ELSE edits)
           ELSE Failed("remove_alpha_channel", None, r)

\* a save_image that reports the size of the written file as the size before
RusImg_save_image_BeforeFromDest(path) ==
    /\ HasDocument
    /\ LET r == Backend_save(Unwrap(data), files, path)
       IN  IF r.err = ""
           THEN Return("save_image", path, "", extension, Some(r.data), r.files, None,
                       Some(SaveStatus(get_destination_filepath(r.data).path,
                                       IF IsSome(get_metadata_dest(r.data))
                                       THEN Some(Unwrap(get_metadata_dest(r.data)).len) ELSE None,
                                       IF IsSome(get_metadata_dest(r.data))
                                       THEN Some(Unwrap(get_metadata_dest(r.data)).len) ELSE None)),
                       edits)
           ELSE Failed("save_image", path, r)

RusImg_save_image(path) ==
    /\ HasDocument
    /\ LET r == Backend_save(Unwrap(data), files, path)
       IN  IF r.err = "" /\ get_destination_filepath(r.data).err # ""
           THEN Return("save_image", path, get_destination_filepath(r.data).err, extension,
                       Some(r.data), r.files, None, None, edits)
           ELSE IF r.err = ""
           THEN Return("save_image", path, "", extension, Some(r.data), r.files, None,
                       Some(SaveStatus(get_destination_filepath(r.data).path,
                                       IF IsSome(get_metadata_src(r.data))
                                       THEN Some(Unwrap(get_metadata_src(r.data)).len) ELSE None,
                                       IF IsSome(get_metadata_dest(r.data))
                                       THEN Some(Unwrap(get_metadata_dest(r.data)).len) ELSE None)),
                       edits)
           ELSE Failed("save_image", path, r)

----------------------------------------------------------------------------
(* The files that exist when the program starts, and the inputs of the calls *)

SourceImage(c) == Image(MaxDim, MaxDim - 1, c)
FileBytes(format, image) == Bytes("file", format, image, F32(0))

WebpFile == Path("", "a", "webp")       \* Webp content, named .webp
WebpAsPngFile == Path("", "b", "png")   \* Webp content, named .png
PngFile == Path("", "c", "png")
JpegFile == Path("", "d", "jpg")
BmpFile == Path("", "e", "bmp")
TextFile == Path("", "f", "txt")        \* no image signature
GifFile == Path("", "g", "gif")         \* a signature outside the four formats
CorruptPngFile == Path("", "h", "png")  \* Png signature, undecodable
MissingFile == Path("", "none", "png")  \* does not exist

InitFiles ==
    (WebpFile :> FileBytes("webp", Some(SourceImage("Rgba8"))))
    @@ (WebpAsPngFile :> FileBytes("webp", Some(SourceImage("Rgba8"))))
    @@ (PngFile :> FileBytes("png", Some(SourceImage("Rgba8"))))
    @@ (JpegFile :> FileBytes("jpeg", Some(SourceImage("Rgb8"))))
    @@ (BmpFile :> FileBytes("bmp", Some(SourceImage("Rgb8"))))
    @@ (TextFile :> FileBytes("", None))
    @@ (GifFile :> FileBytes("gif", Some(SourceImage("Rgba8"))))
    @@ (CorruptPngFile :> FileBytes("png", None))

NoCall == [op |-> "init", arg |-> None, err |-> "", size |-> None, status |-> None]
Running == last.err # "panic"

NewImages == {SourceImage("Rgba8")}
Ratios == {-1, 0, 50, 200}
Rects == {Rect(0, 0, 1, 1), Rect(1, 1, MaxDim, MaxDim), Rect(MaxDim + 1, 0, 1, 1)}
Qualities == {None, Some(F32(10)), Some(F32(150)), Some(NaN)}
Destinations == {None, Some(Path("", "o", "png")), Some(Path("", "out", "")),
                 Some(Path("missing", "o", "webp"))}

----------------------------------------------------------------------------
(* Spec: the life of a document *)

Init ==
    /\ extension = None
    /\ data = None
    /\ files = InitFiles
    /\ features = AllFeatures
    /\ last = NoCall
    /\ edits = 0
    /\ steps = 0

Open == \E path \in DOMAIN files \cup {MissingFile} : RusImg_open(path)
New == \E ext \in Extension, image \in NewImages : RusImg_new(ext, image)
Assemble == \E image \in {None} \cup {Some(i) : i \in NewImages},
                source_path \in {None, Some(MissingFile)} :
                RusImg_assemble(ExternalFormat("empty"), image, source_path)
Resize == \E ratio \in Ratios : RusImg_resize(ratio)
Trim == \E trim \in Rects : RusImg_trim(trim)
Grayscale == RusImg_grayscale
SetDynamicImage == \E image \in {Image(1, 1, "Rgba8")} : RusImg_set_dynamic_image(image)
Compress == \E quality \in Qualities : RusImg_compress(quality)
Convert == \E ext \in Extension : RusImg_convert(ext)
SaveImage == \E path \in Destinations : RusImg_save_image(path)

Next ==
    /\ steps < MaxSteps
    /\ Running
    /\ \/ Open
       \/ New
       \/ Assemble
       \/ Resize
       \/ Trim
       \/ Grayscale
       \/ SetDynamicImage
       \/ RusImg_remove_alpha_channel
       \/ Compress
       \/ Convert
       \/ SaveImage

Spec == Init /\ [][Next]_vars

----------------------------------------------------------------------------
(* SpecGeom: one resize or trim on a freshly created document of every     *)
(* backend and geometry                                                    *)

TestDim == 100      \* the side of the images of the tests of src/lib.rs
\* every rectangle within MaxRect, the three rectangles of the tests, and
\* rectangles with coordinates at the top of the u32 range: -1 is the two's
\* complement reading of 2^32 - 1, and MaxI32 is 2^31 - 1
GeomRects == {Rect(x, y, w, h) : x \in 0..MaxRect, y \in 0..MaxRect,
                                 w \in 0..MaxRect, h \in 0..MaxRect}
             \cup {Rect(10, 10, 50, 50), Rect(10, 10, 200, 200), Rect(150, 150, 50, 50)}
             \cup {Rect(x, y, w, h) : x \in {0, 1, -1}, y \in {0, 1, -1},
                                      w \in {1, 2, MaxI32, -1}, h \in {1, 2, MaxI32, -1}}

\* the state after RusImg::new, or after RusImg::assemble with an EmptyImage
Created(ext, image) ==
    LET r == IF ext \in {Bmp, Jpeg, Png, Webp}
             THEN new_image(AllFeatures, ext, image)
             ELSE [err |-> "", extension |-> Some(ext),
                   data |-> EmptyImage_import(Some(image), None, None).data]
    IN  /\ extension = r.extension
        /\ data = r.data
        /\ files = InitFiles
        /\ features = AllFeatures
        /\ last = NoCall
        /\ edits = 0
        /\ steps = 0

InitGeom ==
    \E ext \in {Bmp, Jpeg, Png, Webp, ExternalFormat("empty")}, 
       wh \in ((1..MaxDim) \X (1..MaxDim)) \cup {<<TestDim, TestDim>>} :
        Created(ext, Image(wh[1], wh[2], "Rgb8"))

NextGeom ==
    /\ steps = 0
    /\ \/ \E ratio \in (-1)..MaxRatio : RusImg_resize(ratio)
       \/ \E trim \in GeomRects : RusImg_trim(trim)

SpecGeom == InitGeom /\ [][NextGeom]_vars

----------------------------------------------------------------------------
(* SpecCompress: one compress on a freshly opened or created document      *)

CompressQualities == {None, Some(NaN)} \cup {Some(F32(q)) : q \in (-2)..102}

\* the state after a successful RusImg::open
Opened(path) ==
    LET r == open_image(AllFeatures, InitFiles, path)
    IN  /\ extension = r.extension
        /\ data = r.data
        /\ files = InitFiles
        /\ features = AllFeatures
        /\ last = NoCall
        /\ edits = 0
        /\ steps = 0

InitCompress ==
    \/ \E path \in {WebpFile, PngFile, JpegFile, BmpFile} : Opened(path)
    \/ \E ext \in {Bmp, Jpeg, Png, Webp, ExternalFormat("empty")} :
           Created(ext, SourceImage("Rgba8"))

NextCompress == steps = 0 /\ \E quality \in CompressQualities : RusImg_compress(quality)

SpecCompress == InitCompress /\ [][NextCompress]_vars

----------------------------------------------------------------------------
(* SpecBuild: open, new, assemble and convert under every set of features  *)

InitBuild ==
    /\ extension = None
    /\ data = None
    /\ files = InitFiles
    /\ features \in SUBSET AllFeatures
    /\ last = NoCall
    /\ edits = 0
    /\ steps = 0

NextBuild ==
    /\ steps < MaxBuildSteps
    /\ Running
    /\ \/ Open
       \/ New
       \/ Assemble
       \/ Convert

SpecBuild == InitBuild /\ [][NextBuild]_vars

----------------------------------------------------------------------------
(* SpecSession: edits, compress, convert and save on a document that has   *)
(* just been opened or created                                             *)

InitSession ==
    \/ \E path \in {WebpFile, WebpAsPngFile, PngFile, JpegFile, BmpFile} : Opened(path)
    \/ \E ext \in {Bmp, Jpeg, Png, Webp, ExternalFormat("empty")} :
           Created(ext, SourceImage("Rgba8"))

NextSession ==
    /\ steps < MaxSessionSteps
    /\ Running
    /\ \/ Resize
       \/ Trim
       \/ Grayscale
       \/ SetDynamicImage
       \/ Compress
       \/ Convert
       \/ SaveImage

SpecSession == InitSession /\ [][NextSession]_vars

----------------------------------------------------------------------------
(* SpecRoundTrip: resize, trim, grayscale, compress and save on a document *)
(* that has just been opened                                               *)

InitRoundTrip == \E path \in {WebpFile, PngFile, JpegFile, BmpFile} : Opened(path)

NextRoundTrip ==
    /\ steps < MaxRoundTripSteps
    /\ \/ Resize
       \/ Trim
       \/ Grayscale
       \/ Compress
       \/ SaveImage

SpecRoundTrip == InitRoundTrip /\ [][NextRoundTrip]_vars

----------------------------------------------------------------------------
(* Properties *)

\* C1: Webp passthrough.  For every file whose content is sniffed as Webp,
\* whatever its name, open followed directly by save_image writes exactly
\* the bytes of the source file; open, grayscale, save_image writes the
\* encoding of the pixel buffer and not the source bytes.
C1_WebpPassthrough ==
    [][(/\ last.err = ""
        /\ last'.op = "save_image"
        /\ last'.err = ""
        /\ IsSome(data)
        /\ Unwrap(data).type = "Webp"
        /\ IsSome(Unwrap(data).image_bytes))
       =>
       LET d == Unwrap(data)
           written == files'[Unwrap(Unwrap(last'.status).output_path)]
       IN  /\ last.op = "open" => written = d.image_bytes[1]
           /\ (last.op = "grayscale" /\ steps = 2) =>
                 /\ written = WebpEncode(Unwrap(d.image), F32(75))
                 /\ written # d.image_bytes[1]]_vars

\* C2: Webp save after an edit.  For a Webp document opened from a Webp file,
\* once at least one resize, trim, grayscale or set_dynamic_image has
\* succeeded since the open, a successful save_image writes the encoding of
\* the live pixel buffer at the stored quality (75 when none is stored) and
\* not the source bytes.
C2_WebpSaveAfterEdit ==
    [][(/\ last'.op = "save_image"
        /\ last'.err = ""
        /\ IsSome(data)
        /\ Unwrap(data).type = "Webp"
        /\ IsSome(Unwrap(data).image_bytes)
        /\ edits >= 1)
       =>
       LET d == Unwrap(data)
           quality == IF IsSome(d.required_quality) THEN Unwrap(d.required_quality)
                      ELSE F32(75)
           written == files'[Unwrap(Unwrap(last'.status).output_path)]
       IN  /\ written = WebpEncode(Unwrap(d.image), quality)
           /\ written # Unwrap(d.image_bytes)]_vars

\* C3: trim.  On an image of W x H, a rect (x, y, w, h), w = 0 or h = 0
\* included: with the origin inside and x + w <= W and y + h <= H, trim
\* returns {w, h}; with the origin inside and the extent overflowing it
\* returns {min(w, W - x), min(h, H - y)}; with x >= W or y >= H it fails
\* with InvalidTrimXY and the backend is unchanged.
C3_Trim ==
    [][(last'.op = "trim" /\ IsSome(data) /\ IsSome(Unwrap(data).size))
       =>
       LET W == Unwrap(Unwrap(data).size).width
           H == Unwrap(Unwrap(data).size).height
           t == last'.arg
       IN  IF t.x >= W \/ t.y >= H
           THEN /\ last'.err = "InvalidTrimXY"
                /\ data' = data
           ELSE /\ last'.err = ""
                /\ last'.size = Some(ImgSize(Min(t.w, W - t.x), Min(t.h, H - t.y)))
                /\ get_size(Unwrap(data')) = last'.size]_vars

\* C4: resize.  For every backend of W x H and every ratio r > 0, resize(r)
\* returns {floor(W * r / 100), floor(H * r / 100)} and get_size returns the
\* same value afterwards.
C4_Resize ==
    [][(last'.op = "resize" /\ last'.arg > 0 /\ IsSome(data) /\ IsSome(Unwrap(data).size))
       =>
       LET W == Unwrap(Unwrap(data).size).width
           H == Unwrap(Unwrap(data).size).height
           r == last'.arg
           expected == Some(ImgSize((W * r) \div 100, (H * r) \div 100))
       IN  /\ last'.err = ""
           /\ last'.size = expected
           /\ get_size(Unwrap(data')) = expected]_vars

\* C5: the facade's resize with ratio <= 0 fails with InvalidResizeRatio and
\* the backend is not called: geometry, pixel buffer, operation counter and
\* cached bytes (the whole backend), the tag and the files are unchanged.
C5_InvalidResizeRatio ==
    [][(last'.op = "resize" /\ last'.arg <= 0)
       =>
       /\ last'.err = "InvalidResizeRatio"
       /\ data' = data
       /\ extension' = extension
       /\ files' = files]_vars

\* a document with cached bytes has just had resize(ratio <= 0) rejected
C5_Witness ==
    /\ last.op = "resize"
    /\ last.arg <= 0
    /\ last.err = "InvalidResizeRatio"
    /\ IsSome(data)
    /\ IsSome(Unwrap(data).image_bytes)

C7_BmpCompress ==
    [][(last'.op = "compress" /\ IsSome(data) /\ Unwrap(data).type = "Bmp")
       =>
       /\ last'.err = "ImageFormatCannotBeCompressed"
       /\ data' = data
       /\ extension' = extension]_vars

\* C7 amended: compress on a Bmp document always fails and leaves the
\* document unchanged; the error is InvalidCompressionLevel when the quality
\* is below 0 or above 100 and ImageFormatCannotBeCompressed for every other
\* quality (absent or inside [0, 100]).
C7_BmpCompressAmended ==
    [][(last'.op = "compress" /\ IsSome(data) /\ Unwrap(data).type = "Bmp")
       =>
       LET q == last'.arg
           outside == IsSome(q) /\ ~Unwrap(q).nan /\ (Unwrap(q).v < 0 \/ Unwrap(q).v > 100)
       IN  /\ last'.err = IF outside THEN "InvalidCompressionLevel"
                          ELSE "ImageFormatCannotBeCompressed"
           /\ data' = data
           /\ extension' = extension]_vars

\* compress with a quality inside [0, 100] has just failed on a Bmp document
C7_Witness ==
    /\ last.op = "compress"
    /\ last.arg = Some(F32(50))
    /\ last.err = "ImageFormatCannotBeCompressed"
    /\ IsSome(data)
    /\ Unwrap(data).type = "Bmp"

\* C8: Png compress selects optimizer level 1 for q <= 17, 2 for 17 < q <= 34,
\* 3 for 34 < q <= 51, 4 for 51 < q <= 68, 5 for 68 < q <= 85 and 6 for q > 85,
\* level 5 when the quality is absent; the level never decreases as q grows;
\* quality 10 selects level 1 (the lowest) and quality 90 level 6 (the highest).
C8_PngLevel ==
    [][(/\ last'.op = "compress"
        /\ last'.err = ""
        /\ IsSome(data)
        /\ Unwrap(data).type = "Png")
       =>
       LET q == last'.arg
           level == Unwrap(Unwrap(data').image_bytes).param.v
       IN  /\ Unwrap(Unwrap(data').image_bytes).origin = "oxipng"
           /\ level \in 1..6
           /\ IsNone(q) => level = 5
           /\ (IsSome(q) /\ ~Unwrap(q).nan) =>
                 /\ level = 1 + Cardinality({t \in {17, 34, 51, 68, 85} : Unwrap(q).v > t})
                 /\ \A lower \in CompressQualities :
                        (IsSome(lower) /\ ~Unwrap(lower).nan /\ Unwrap(lower).v <= Unwrap(q).v)
                        => PngImage_level(lower) <= level
           /\ q = Some(F32(10)) => level = 1
           /\ q = Some(F32(90)) => level = 6]_vars

\* compress(90) on a Png document has just produced bytes at level 6
C8_Witness ==
    /\ last.op = "compress"
    /\ last.arg = Some(F32(90))
    /\ last.err = ""
    /\ IsSome(data)
    /\ Unwrap(data).type = "Png"
    /\ Unwrap(Unwrap(data).image_bytes).param = F32(6)

\* C9: a successful convert(target) replaces backend and tag together: the
\* tag is target, the backend is a fresh instance of target's format as
\* import builds it, its geometry is the dimensions of the old backend's
\* pixel buffer, and its source path and source metadata are those the old
\* backend reported.
C9_Convert ==
    [][(last'.op = "convert" /\ last'.err = "" /\ IsSome(data))
       =>
       LET old == Unwrap(data)
           new == Unwrap(data')
           target == last'.arg
       IN  /\ extension' = Some(target)
           /\ new.type = CASE target = Bmp -> "Bmp"
                            [] target \in {Jpg, Jpeg} -> "Jpeg"
                            [] target = Png -> "Png"
                            [] target = Webp -> "Webp"
                            [] OTHER -> ""
           /\ new.operations_count = 0
           /\ IsNone(new.image_bytes)
           /\ IsNone(new.required_quality)
           /\ IsNone(new.filepath_output)
           /\ get_size(new) = Some(SizeOf(Unwrap(old.image)))
           /\ SizeOf(Unwrap(new.image)) = SizeOf(Unwrap(old.image))
           /\ get_source_filepath(new) = get_source_filepath(old)
           /\ get_metadata_src(new) = get_metadata_src(old)]_vars

\* a document opened from the Webp file has just been converted to Jpg
C9_Witness ==
    /\ last.op = "convert"
    /\ last.arg = Jpg
    /\ last.err = ""
    /\ extension = Some(Jpg)
    /\ IsSome(data)
    /\ Unwrap(data).type = "Jpeg"
    /\ Unwrap(data).filepath_input = Some(WebpFile)

\* C10: convert to ExternalFormat (any name, "empty" included) or to a format
\* whose feature is disabled fails with UnsupportedFileExtension, and every
\* convert that fails leaves the tag and the backend as they were.
C10_ConvertUnsupported ==
    [][(last'.op = "convert" /\ IsSome(data))
       =>
       LET target == last'.arg
           disabled == \/ target = Bmp /\ "bmp" \notin features
                       \/ target \in {Jpg, Jpeg} /\ "jpeg" \notin features
                       \/ target = Png /\ "png" \notin features
                       \/ target = Webp /\ "webp" \notin features
       IN  /\ (target \notin {Bmp, Jpg, Jpeg, Png, Webp} \/ disabled) =>
                 last'.err = "UnsupportedFileExtension"
           /\ last'.err # "" => (data' = data /\ extension' = extension)]_vars


BackendOfTag(ext) ==
    CASE ext = Bmp -> "Bmp"
      [] ext \in {Jpg, Jpeg} -> "Jpeg"
      [] ext = Png -> "Png"
      [] ext = Webp -> "Webp"
      [] OTHER -> ""

\* C12: in every state reached by open, new and any sequence of successful
\* or failed convert calls the document has a tag exactly when it has a
\* backend, and the tag names the format of the backend (Jpg and Jpeg both
\* name the Jpeg backend).  Documents built by assemble around an EmptyImage
\* are outside the statement until a convert replaces their backend.
C12_TagMatchesBackend ==
    /\ IsSome(extension) <=> IsSome(data)
    /\ (IsSome(data) /\ Unwrap(data).type # "Empty") =>
          BackendOfTag(Unwrap(extension)) = Unwrap(data).type

\* a convert to a disabled or external target has just failed on an opened
\* Jpeg document, which keeps its tag and backend
C12_Witness ==
    /\ last.op = "convert"
    /\ last.err = "UnsupportedFileExtension"
    /\ extension = Some(Jpeg)
    /\ IsSome(data)
    /\ Unwrap(data).type = "Jpeg"

\* C13: for a document tagged Bmp, Jpeg, Jpg, Png or Webp a successful
\* save_image writes a file whose content sniffs as the format of the tag,
\* whatever the name of the destination and whether or not compress was
\* called before.
C13_SaveWritesTagFormat ==
    [][(/\ last'.op = "save_image"
        /\ last'.err = ""
        /\ IsSome(extension)
        /\ BackendOfTag(Unwrap(extension)) # "")
       =>
       LET written == files'[Unwrap(Unwrap(last'.status).output_path)]
           tag == Unwrap(extension)
       IN  guess_format(written) = CASE tag = Bmp -> "bmp"
                                     [] tag \in {Jpg, Jpeg} -> "jpeg"
                                     [] tag = Png -> "png"
                                     [] OTHER -> "webp"]_vars

\* C14: the path save writes to.  With a directory as destination it is the
\* directory joined with the base name of the source carrying the new
\* extension; with a file path as destination it is that path; with no
\* destination it is the source path with the new extension; and the call
\* fails with SourcePathMustBeSpecified exactly when the source path is
\* absent in the directory case or the no-destination case.  Stated for the
\* Jpeg, Png and Webp backends, whose save calls get_save_filepath first.
C14_SavePath ==
    [][(/\ last'.op = "save_image"
        /\ IsSome(data)
        /\ Unwrap(data).type \in {"Jpeg", "Png", "Webp"})
       =>
       LET d == Unwrap(data)
           src == d.filepath_input
           dest == last'.arg
           new_extension == CASE d.type = "Webp" -> "webp"
                              [] d.type = "Png" -> "png"
                              [] d.type = "Bmp" -> "bmp"
                              [] OTHER -> d.extension_str
           needs_source == IsNone(dest) \/ is_dir(Unwrap(dest))
           expected == IF IsNone(dest)
                       THEN Path(Unwrap(src).dir, Unwrap(src).stem, new_extension)
                       ELSE IF is_dir(Unwrap(dest))
                       THEN Path(Unwrap(dest).stem, Unwrap(src).stem, new_extension)
                       ELSE Unwrap(dest)
       IN  /\ (last'.err = "SourcePathMustBeSpecified") <=> (needs_source /\ IsNone(src))
           /\ last'.err = "" => Unwrap(last'.status).output_path = Some(expected)]_vars

\* C15: a save_image that fails leaves the backend's destination path and
\* destination metadata (and the rest of the backend) as they were, and a
\* save to a file path whose parent directory does not exist fails and
\* writes nothing.
C15_FailedSaveAtomic ==
    [][(last'.op = "save_image" /\ IsSome(data))
       =>
       /\ last'.err # "" =>
             /\ IsSome(data')
             /\ Unwrap(data').filepath_output = Unwrap(data).filepath_output
             /\ Unwrap(data').metadata_output = Unwrap(data).metadata_output
             /\ data' = data
       /\ (IsSome(last'.arg) /\ Unwrap(last'.arg).dir \notin ({""} \cup Dirs)) =>
             /\ last'.err \notin {"", "panic"}
             /\ files' = files]_vars

\* a document that was saved before has just failed to save into a
\* directory that does not exist
C15_Witness ==
    /\ last.op = "save_image"
    /\ last.arg = Some(Path("missing", "o", "webp"))
    /\ last.err \in {"FailedToCreateFile", "FailedToSaveImage"}
    /\ IsSome(data)
    /\ IsSome(Unwrap(data).filepath_output)
    /\ Unwrap(data).filepath_output # last.arg

\* C16: open on a path that does not exist returns a document that holds an
\* Empty backend under the Empty tag, and nothing is read or decoded.
C16_OpenMissingGivesEmpty ==
    [][(last'.op = "open" /\ last'.arg \notin DOMAIN files)
       =>
       /\ last'.err = ""
       /\ IsSome(extension')
       /\ BackendOfTag(Unwrap(extension')) = ""
       /\ IsSome(data')
       /\ Unwrap(data').type = "Empty"
       /\ IsNone(Unwrap(data').image)]_vars

\* C17: RusImg::open on a path that does not exist fails with
\* FailedToOpenFile and constructs no document: tag, backend and files are
\* what they were.
C17_OpenMissingFails ==
    [][(last'.op = "open" /\ last'.arg \notin DOMAIN files)
       =>
       /\ last'.err = "FailedToOpenFile"
       /\ data' = data
       /\ extension' = extension
       /\ files' = files]_vars

\* the first call was an open of the missing file: it failed and there is
\* no document
C17_Witness ==
    /\ last.op = "open"
    /\ last.arg = MissingFile
    /\ last.err = "FailedToOpenFile"
    /\ steps = 1
    /\ IsNone(data)
    /\ IsNone(extension)


C19_GeometryMatchesBuffer ==
    (/\ IsSome(data)
     /\ Unwrap(data).type \in {"Jpeg", "Png", "Webp", "Empty"}
     /\ IsSome(Unwrap(data).image))
    =>
    /\ get_size(Unwrap(data)) = Some(SizeOf(Unwrap(Unwrap(data).image)))
    /\ (last.op \in {"resize", "trim"} /\ last.err = "") =>
          last.size = get_size(Unwrap(data))

\* C20: after any sequence of resize, trim, grayscale and compress on an
\* opened document of a supported format, a successful save_image writes a
\* file that opens again as an image whose dimensions are the size get_size
\* reported when the save was made.
C20_RoundTripDimensions ==
    [][(last'.op = "save_image" /\ last'.err = "" /\ IsSome(data))
       =>
       LET reopened == open_image(features, files', Unwrap(Unwrap(last'.status).output_path))
       IN  /\ reopened.err = ""
           /\ Some(SizeOf(Unwrap(Unwrap(reopened.data).image))) = get_size(Unwrap(data))]_vars

\* C21: on an Empty backend compress fails with ImageFormatCannotBeCompressed
\* and save fails with UnsupportedFeature for every argument and in every
\* state, writing no file and changing no field; the facade's save_image on
\* an Empty document returns that error and no SaveStatus, its compress
\* returns the backend's error whenever the backend is reached, and every
\* successful save_image is made on a backend of a real format.
C21_EmptyCompressSave ==
    [][/\ (IsSome(data') /\ Unwrap(data').type = "Empty") =>
             LET d == Unwrap(data')
             IN  /\ \A quality \in Qualities \cup CompressQualities :
                        Backend_compress(d, files', quality)
                          = Result("ImageFormatCannotBeCompressed", d, files', None)
                 /\ \A path \in Destinations :
                        Backend_save(d, files', path)
                          = Result("UnsupportedFeature", d, files', None)
       /\ (last'.op = "save_image" /\ IsSome(data) /\ Unwrap(data).type = "Empty") =>
             /\ last'.err = "UnsupportedFeature"
             /\ IsNone(last'.status)
             /\ data' = data
             /\ extension' = extension
             /\ files' = files
       /\ (last'.op = "compress" /\ IsSome(data) /\ Unwrap(data).type = "Empty") =>
             /\ last'.err \in {"ImageFormatCannotBeCompressed", "InvalidCompressionLevel"}
             /\ last'.err = "InvalidCompressionLevel" =>
                   (IsSome(last'.arg) /\ ~(FLe(F32(0), Unwrap(last'.arg))
                                           /\ FLe(Unwrap(last'.arg), F32(100)))
                                      /\ ~Unwrap(last'.arg).nan)
             /\ data' = data
             /\ files' = files
       /\ (last'.op = "save_image" /\ last'.err = "") =>
             Unwrap(data).type \in {"Bmp", "Jpeg", "Png", "Webp"}]_vars

\* save_image to a writable destination has just failed on an Empty document
\* that holds a pixel buffer
C21_Witness ==
    /\ last.op = "save_image"
    /\ last.arg = Some(Path("", "o", "png"))
    /\ last.err = "UnsupportedFeature"
    /\ IsSome(data)
    /\ Unwrap(data).type = "Empty"
    /\ IsSome(Unwrap(data).image)

\* C22: get_destination_filepath of a Jpeg, Png, Webp or Empty backend
\* returns an error as long as no save has succeeded on the backend since it
\* was opened or imported, and returns the path of the last successful save
\* afterwards: it is an error right after open, new and convert, it is the
\* path reported by save_image right after a successful save_image, and
\* every other call leaves its answer as it was.
C22_DestinationPathQuery ==
    [][(IsSome(data') /\ Unwrap(data').type \in {"Jpeg", "Png", "Webp", "Empty"})
       =>
       LET query == get_destination_filepath(Unwrap(data'))
       IN  IF last'.op \in {"open", "new", "assemble", "convert"} /\ last'.err = ""
           THEN query.err # ""
           ELSE IF last'.op = "save_image" /\ last'.err = ""
           THEN query.err = "" /\ query.path = Unwrap(last'.status).output_path
                /\ IsSome(query.path)
           ELSE IsSome(data) => query = get_destination_filepath(Unwrap(data))]_vars

\* C23: every successful save_image returns a SaveStatus whose output path is
\* present and is the resolved destination (the given file path; or the
\* source file name with the format's extension inside a given directory or,
\* with no destination, beside the source), whose size after is present and
\* is the length of the file written, which is the destination metadata the
\* save recorded, and whose size before is the length of the source file at
\* open time, also after convert, and is absent exactly for a document with
\* no source file (created in memory); a failed save_image returns no
\* SaveStatus.
C23_SaveStatus ==
    [][/\ (last'.op = "save_image" /\ last'.err # "") => IsNone(last'.status)
       /\ (last'.op = "save_image" /\ last'.err = "") =>
             LET d == Unwrap(data)
                 st == Unwrap(last'.status)
                 dest == last'.arg
                 ext == CASE d.type = "Webp" -> "webp"
                          [] d.type = "Png" -> "png"
                          [] d.type = "Bmp" -> "bmp"
                          [] OTHER -> d.extension_str
                 src == Unwrap(d.filepath_input)
                 resolved == IF IsSome(dest) /\ ~is_dir(Unwrap(dest)) THEN Unwrap(dest)
                             ELSE IF IsSome(dest)
                             THEN Path(Unwrap(dest).stem, src.stem, ext)
                             ELSE Path(src.dir, src.stem, ext)
             IN  /\ st.output_path = Some(resolved)
                 /\ resolved \in DOMAIN files'
                 /\ st.after_filesize = Some(files'[resolved].len)
                 /\ get_metadata_dest(Unwrap(data')) = Some(Metadata(files'[resolved]))
                 /\ st.before_filesize = IF IsSome(d.filepath_input)
                                         THEN Some(InitFiles[src].len) ELSE None
                 /\ IsNone(st.before_filesize) <=> IsNone(d.filepath_input)]_vars

\* the document opened from a.webp was trimmed, converted to Png and saved
\* into the directory out: size before is the source's, size after the
\* smaller file's
C23_Witness ==
    /\ last.op = "save_image"
    /\ last.err = ""
    /\ last.arg = Some(Path("", "out", ""))
    /\ IsSome(data)
    /\ Unwrap(data).type = "Png"
    /\ Unwrap(data).filepath_input = Some(WebpFile)
    /\ Unwrap(last.status).output_path = Some(Path("out", "a", "png"))
    /\ Unwrap(last.status).before_filesize = Some(InitFiles[WebpFile].len)
    /\ Unwrap(Unwrap(last.status).after_filesize) < InitFiles[WebpFile].len

\* C24: remove_alpha_channel on a Jpeg, Png, Webp or Empty backend that has a
\* geometry and a pixel buffer: with width 0 or height 0 it fails with
\* ImageNotSpecified and changes nothing; otherwise it succeeds, a buffer
\* whose layout carries alpha (La8, La16, Rgba8, Rgba16, Rgba32F) has the
\* alpha-less layout of the same depth afterwards, and a buffer without
\* alpha is unchanged.
C24_RemoveAlphaChannel ==
    [][(/\ last'.op = "remove_alpha_channel"
        /\ IsSome(data)
        /\ Unwrap(data).type \in {"Jpeg", "Png", "Webp", "Empty"}
        /\ IsSome(get_size(Unwrap(data)))
        /\ IsSome(Unwrap(data).image))
       =>
       LET d == Unwrap(data)
           img == Unwrap(d.image)
           alphaless == CASE img.color = "La8" -> "L8"
                          [] img.color = "La16" -> "L16"
                          [] img.color = "Rgba8" -> "Rgb8"
                          [] img.color = "Rgba16" -> "Rgb16"
                          [] img.color = "Rgba32F" -> "Rgb32F"
                          [] OTHER -> img.color
       IN  IF Unwrap(get_size(d)).width = 0 \/ Unwrap(get_size(d)).height = 0
           THEN last'.err = "ImageNotSpecified" /\ data' = data
           ELSE /\ last'.err = ""
                /\ Unwrap(data').image = Some([img EXCEPT !.color = alphaless])]_vars

\* C25: Jpeg encode policy.  A successful compress stores in the cached
\* bytes a Jpeg encoding, at the requested quality (75 when omitted), of the
\* pixel buffer as it is at that moment; a successful save_image writes the
\* cached bytes verbatim when there are some and an encoding of the pixel
\* buffer otherwise; the cached bytes are absent after open, new and convert
\* and no call other than compress sets them.
C25_JpegEncodePolicy ==
    [][/\ (last'.op = "compress" /\ last'.err = "" /\ Unwrap(data).type = "Jpeg") =>
             LET cached == Unwrap(data').image_bytes
                 quality == IF IsSome(last'.arg) THEN Unwrap(last'.arg) ELSE F32(75)
             IN  /\ IsSome(cached)
                 /\ Unwrap(cached).origin = "mozjpeg"
                 /\ Unwrap(cached).param = quality
                 /\ SizeOf(Unwrap(Unwrap(cached).image)) = SizeOf(Unwrap(Unwrap(data).image))
       /\ (last'.op = "save_image" /\ last'.err = "" /\ Unwrap(data).type = "Jpeg") =>
             LET d == Unwrap(data)
                 written == files'[Unwrap(Unwrap(last'.status).output_path)]
             IN  IF IsSome(d.image_bytes)
                 THEN written = Unwrap(d.image_bytes)
                 ELSE /\ written.origin = "image_save"
                      /\ SizeOf(Unwrap(written.image)) = SizeOf(Unwrap(d.image))
       /\ (/\ last'.op \in {"open", "new", "convert"}
           /\ last'.err = ""
           /\ Unwrap(data').type = "Jpeg") => IsNone(Unwrap(data').image_bytes)
       /\ (/\ last'.op \notin {"open", "new", "convert", "assemble", "compress"}
           /\ IsSome(data)
           /\ Unwrap(data).type = "Jpeg") =>
             Unwrap(data').image_bytes = Unwrap(data).image_bytes]_vars

\* C26: last compress wins.  On a Jpeg, Png or Webp backend in any state, a
\* successful compress(first) followed directly by a successful compress(q)
\* and a save to any destination has the outcome of compress(q) alone
\* followed by the same save: the same file with the same bytes, or the same
\* error.  Applied along a run of compress calls this makes the output that
\* of the last call alone.
C26_LastCompressWins ==
    [][(/\ last'.op = "compress"
        /\ last'.err = ""
        /\ Unwrap(data).type \in {"Jpeg", "Png", "Webp"})
       =>
       \A first \in {None, Some(F32(10)), Some(F32(90))}, path \in Destinations :
           LET a == Backend_compress(Unwrap(data), files, first)
               b == Backend_compress(a.data, a.files, last'.arg)
               twice == Backend_save(b.data, b.files, path)
               once == Backend_save(Unwrap(data'), files', path)
           IN  /\ a.err = ""
               /\ b.err = ""
               /\ twice.err = once.err
               /\ twice.files = once.files]_vars

\* a Webp document has been compressed twice in a row, the second time with
\* no quality, and holds the second request
C26_Witness ==
    /\ last.op = "compress"
    /\ last.arg = None
    /\ last.err = ""
    /\ steps = 2
    /\ edits = 0
    /\ IsSome(data)
    /\ Unwrap(data).type = "Webp"
    /\ Unwrap(data).operations_count = 2
    /\ IsNone(Unwrap(data).required_quality)

\* C27: Png save policy.  A successful save_image on a Png backend writes the
\* cached compressed bytes when a compress has succeeded, and otherwise the
\* raw bytes captured at open or import (the bytes of the opened file, or
\* the Png encoding made by import).
C27_PngSavePolicy ==
    [][(/\ last'.op = "save_image"
        /\ last'.err = ""
        /\ Unwrap(data).type = "Png")
       =>
       LET d == Unwrap(data)
           written == files'[Unwrap(Unwrap(last'.status).output_path)]
       IN  IF IsSome(d.image_bytes)
           THEN written = Unwrap(d.image_bytes)
           ELSE written = Unwrap(d.binary_data)]_vars

\* C28: the operation counter of a Jpeg, Png or Webp backend is 0 right after
\* open, new and convert; each successful resize, trim and grayscale raises
\* it by exactly 1; a failed call leaves it unchanged; compress and
\* save_image, which are no edits, leave it unchanged, so that it is 0
\* exactly when no edit has been applied since open or import; it never
\* decreases.
C28_OperationCounter ==
    [][(IsSome(data') /\ Unwrap(data').type \in {"Jpeg", "Png", "Webp"})
       =>
       LET after == Unwrap(data').operations_count
           before == Unwrap(data).operations_count
       IN  IF last'.op \in {"open", "new", "convert"}
           THEN last'.err = "" => after = 0
           ELSE /\ after >= before
                /\ last'.err # "" => after = before
                /\ (last'.err = "" /\ last'.op \in {"resize", "trim", "grayscale"}) =>
                      after = before + 1
                /\ last'.op \in {"compress", "save_image"} => after = before]_vars

\* C29: the pixel buffer held by a Jpeg backend never has a layout with an
\* alpha channel (La8, La16, Rgba8, Rgba16, Rgba32F), whatever layout was
\* given to open, new, convert or set_dynamic_image and whatever edits
\* followed.
C29_JpegNoAlpha ==
    (IsSome(data) /\ Unwrap(data).type = "Jpeg")
    => Unwrap(Unwrap(data).image).color \notin {"La8", "La16", "Rgba8", "Rgba16", "Rgba32F"}

\* C30: in every state of a Jpeg, Png or Webp backend the destination path is
\* present exactly when the destination metadata is present, and then the
\* metadata is that of the file at the destination path; both are absent
\* after open, new and convert; a successful save_image sets both, to the
\* path and the length its SaveStatus reports; every other call, a failed
\* save_image included, leaves both as they were.
C30_DestinationPathAndMetadata ==
    [][(IsSome(data') /\ Unwrap(data').type \in {"Jpeg", "Png", "Webp"})
       =>
       LET d == Unwrap(data')
       IN  /\ IsSome(d.filepath_output) <=> IsSome(d.metadata_output)
           /\ IsSome(d.filepath_output) =>
                 /\ Unwrap(d.filepath_output) \in DOMAIN files'
                 /\ d.metadata_output = Some(Metadata(files'[Unwrap(d.filepath_output)]))
           /\ IF last'.op \in {"open", "new", "convert"} /\ last'.err = ""
              THEN IsNone(d.filepath_output) /\ IsNone(d.metadata_output)
              ELSE IF last'.op = "save_image" /\ last'.err = ""
              THEN /\ IsSome(d.filepath_output)
                   /\ d.filepath_output = Unwrap(last'.status).output_path
                   /\ Some(Unwrap(d.metadata_output).len) = Unwrap(last'.status).after_filesize
              ELSE /\ d.filepath_output = Unwrap(data).filepath_output
                   /\ d.metadata_output = Unwrap(data).metadata_output]_vars

\* a Jpeg document saved once has just had a second save fail: it still
\* holds the path and the metadata of the first save
C30_Witness ==
    /\ last.op = "save_image"
    /\ last.err # ""
    /\ IsSome(data)
    /\ Unwrap(data).type = "Jpeg"
    /\ IsSome(Unwrap(data).filepath_output)
    /\ IsSome(Unwrap(data).metadata_output)

\* C31: new and convert accept the same tags.  For every tag T, Jpg included,
\* new(T, pixels) succeeds exactly when convert(T) on a document holding the
\* same pixels succeeds, and the two build a backend of the same format.
C31_NewAndConvertAgree ==
    [][/\ last'.op = "new" =>
             LET converted == convert_to_image(features, last'.arg, SourceImage("Rgba8"),
                                               None, None)
             IN  /\ last'.err = "" <=> converted.err = ""
                 /\ last'.err = "" => Unwrap(data').type = Unwrap(converted.data).type
       /\ (last'.op = "convert" /\ IsSome(data) /\ IsSome(Unwrap(data).image)) =>
             LET created == new_image(features, last'.arg, Unwrap(Unwrap(data).image))
             IN  /\ last'.err = "" <=> created.err = ""
                 /\ last'.err = "" => Unwrap(data').type = Unwrap(created.data).type]_vars

\* C32: the bounds check of trim for every u32 rect.  On a Jpeg, Png, Webp or
\* Empty backend of W x H, for every x, y, w, h of the u32 range, those whose
\* x + w or y + h passes 2^32 - 1 included, a successful trim has x <= W and
\* y <= H, returns a width of at most W - x and a height of at most H - y,
\* and stores that size as the geometry, which so stays within W x H.
C32_TrimBounds ==
    [][(/\ last'.op = "trim"
        /\ last'.err = ""
        /\ IsSome(data)
        /\ Unwrap(data).type \in {"Jpeg", "Png", "Webp", "Empty"})
       =>
       LET W == Unwrap(Unwrap(data).size).width
           H == Unwrap(Unwrap(data).size).height
           t == last'.arg
           size == Unwrap(last'.size)
       IN  /\ ~ULt(W, t.x)
           /\ ~ULt(H, t.y)
           /\ ~ULt(U32Sub(W, t.x), size.width)
           /\ ~ULt(U32Sub(H, t.y), size.height)
           /\ get_size(Unwrap(data')) = last'.size
           /\ ~ULt(W, size.width)
           /\ ~ULt(H, size.height)]_vars

====
